---- MODULE Spec2Model ----
(***************************************************************************)
(* Model of the Shades-and-Tints plugin (src/src/utilities.ts and the App  *)
(* component).                                                             *)
(*                                                                         *)
(* Numbers.  Every `number` of the TypeScript source is an IEEE-754        *)
(* binary64 value.  The lightness arithmetic of calculateShades and        *)
(* calculateTints (l / n, (i + 1) * step, l - ...) is not exact in         *)
(* binary64, so the model does not use the reals: a number is a record     *)
(*      [s |-> sign, m |-> significand, e |-> exponent]                    *)
(* of value (-1)^s * m * 2^e with 2^52 <= m < 2^53 (m = 0 for zero), and   *)
(* +, -, *, / round to nearest, ties to even, as the language does.  A     *)
(* significand does not fit a 32-bit integer, so it is a natural number    *)
(* written as a little-endian sequence of limbs in base 2^14.              *)
(*                                                                         *)
(* Strings.  A string is a sequence of one-character strings, so that the  *)
(* regular expression of extractRGBA and the template literal of hslToRgb  *)
(* are modelled by what they do to characters.                             *)
(***************************************************************************)
EXTENDS Integers, Sequences, FiniteSets, TLC

(***************************************************************************)
(* Natural numbers of arbitrary size: little-endian limbs, no leading zero *)
(* limb, zero is << >>.                                                    *)
(***************************************************************************)
Base == 2^14

LimbBits == 14

RECURSIVE Trim(_)
Trim(a) ==
  IF a = << >> THEN a
  ELSE IF a[Len(a)] = 0 THEN Trim(SubSeq(a, 1, Len(a) - 1)) ELSE a

Limb(a, i) == IF i <= Len(a) THEN a[i] ELSE 0

RECURSIVE BAddFrom(_, _, _, _)
BAddFrom(a, b, i, c) ==
  IF i > Len(a) /\ i > Len(b)
  THEN (IF c = 0 THEN << >> ELSE <<c>>)
  ELSE LET t == Limb(a, i) + Limb(b, i) + c
       IN  <<t % Base>> \o BAddFrom(a, b, i + 1, t \div Base)

BAdd(a, b) == BAddFrom(a, b, 1, 0)

\* a - b for a >= b
RECURSIVE BSubFrom(_, _, _, _)
BSubFrom(a, b, i, c) ==
  IF i > Len(a)
  THEN << >>
  ELSE LET t == a[i] - Limb(b, i) - c
       IN  IF t < 0
           THEN <<t + Base>> \o BSubFrom(a, b, i + 1, 1)
           ELSE <<t>> \o BSubFrom(a, b, i + 1, 0)

BSub(a, b) == Trim(BSubFrom(a, b, 1, 0))

\* -1, 0, 1 as a < b, a = b, a > b
RECURSIVE BCmpFrom(_, _, _)
BCmpFrom(a, b, i) ==
  IF i = 0 THEN 0
  ELSE IF a[i] < b[i] THEN -1
  ELSE IF a[i] > b[i] THEN 1
  ELSE BCmpFrom(a, b, i - 1)

BCmp(a, b) ==
  IF Len(a) < Len(b) THEN -1
  ELSE IF Len(a) > Len(b) THEN 1
  ELSE BCmpFrom(a, b, Len(a))

\* a * k + c for a small k
RECURSIVE BMulSmallFrom(_, _, _, _)
BMulSmallFrom(a, k, i, c) ==
  IF i > Len(a)
  THEN (IF c = 0 THEN << >>
        ELSE IF c < Base THEN <<c>> ELSE <<c % Base, c \div Base>>)
  ELSE LET t == a[i] * k + c
       IN  <<t % Base>> \o BMulSmallFrom(a, k, i + 1, t \div Base)

BMulSmall(a, k) == IF k = 0 THEN << >> ELSE BMulSmallFrom(a, k, 1, 0)

Zeros(n) == [i \in 1..n |-> 0]

\* a * Base^n
BShiftLimbs(a, n) == IF a = << >> THEN a ELSE Zeros(n) \o a

RECURSIVE BMulFrom(_, _, _)
BMulFrom(a, b, i) ==
  IF i > Len(b) THEN << >>
  ELSE BAdd(BShiftLimbs(BMulSmall(a, b[i]), i - 1), BMulFrom(a, b, i + 1))

BMul(a, b) == BMulFrom(a, b, 1)

\* <<quotient, remainder>> of a by a small k > 0, from the top limb down
RECURSIVE BDivSmallFrom(_, _, _, _)
BDivSmallFrom(a, k, i, r) ==
  IF i = 0 THEN <<<< >>, r>>
  ELSE LET t    == r * Base + a[i]
           rest == BDivSmallFrom(a, k, i - 1, t % k)
       IN  <<rest[1] \o <<t \div k>>, rest[2]>>

BDivSmall(a, k) ==
  LET qr == BDivSmallFrom(a, k, Len(a), 0) IN <<Trim(qr[1]), qr[2]>>

RECURSIVE IntBits(_)
IntBits(k) == IF k = 0 THEN 0 ELSE 1 + IntBits(k \div 2)

BitLen(a) == IF a = << >> THEN 0 ELSE LimbBits * (Len(a) - 1) + IntBits(a[Len(a)])

\* a * 2^n
BShl(a, n) == BShiftLimbs(BMulSmall(a, 2^(n % LimbBits)), n \div LimbBits)

\* floor(a / 2^n)
BShr(a, n) ==
  LET k == n \div LimbBits
  IN  IF k >= Len(a) THEN << >>
      ELSE BDivSmall(SubSeq(a, k + 1, Len(a)), 2^(n % LimbBits))[1]

BFromInt(k) == BMulSmallFrom(<< >>, 1, 1, k)

BIsOdd(a) == a # << >> /\ a[1] % 2 = 1

\* the value of a natural number known to fit an integer
RECURSIVE BToInt(_)
BToInt(a) == IF a = << >> THEN 0 ELSE a[1] + Base * BToInt(Tail(a))

(***************************************************************************)
(* binary64                                                                *)
(***************************************************************************)
Precision == 53

FZero == [s |-> 0, m |-> << >>, e |-> 0]

IsZero(x) == x.m = << >>

\* the rounded significand q, one bit shorter if rounding carried out of it
RoundCarry(s, q1, e) ==
  IF BitLen(q1) > Precision
  THEN [s |-> s, m |-> BShr(q1, 1), e |-> e + 1]
  ELSE [s |-> s, m |-> q1, e |-> e]

\* c compares the bits cut off with half of the last bit kept
RoundUp(c, sticky, q) == c > 0 \/ (c = 0 /\ (sticky \/ BIsOdd(q)))

\* M = q * 2^sh + remainder, q of Precision bits
RoundCut(s, M, q, sh, e, sticky) ==
  RoundCarry(s,
             IF RoundUp(BCmp(BSub(M, BShl(q, sh)), BShl(<<1>>, sh - 1)), sticky, q)
             THEN BAdd(q, <<1>>) ELSE q,
             e + sh)

\* M of L bits
RoundBits(s, M, e, sticky, L) ==
  IF L = 0 THEN FZero
  ELSE IF L <= Precision
  THEN [s |-> s, m |-> BShl(M, Precision - L), e |-> e - (Precision - L)]
  ELSE RoundCut(s, M, BShr(M, L - Precision), L - Precision, e, sticky)

\* (-1)^s * M * 2^e (+ something below the last bit of M when sticky),
\* rounded to nearest, ties to even
RoundF(s, M, e, sticky) == RoundBits(s, M, e, sticky, BitLen(M))

FromInt(k) ==
  RoundF(IF k < 0 THEN 1 ELSE 0, BFromInt(IF k < 0 THEN -k ELSE k), 0, FALSE)

FNeg(x) == IF IsZero(x) THEN x ELSE [x EXCEPT !.s = 1 - x.s]

FAbs(x) == [x EXCEPT !.s = 0]

\* -1, 0, 1 as |x| < |y|, |x| = |y|, |x| > |y|
MagCmp(x, y) ==
  IF IsZero(x) THEN (IF IsZero(y) THEN 0 ELSE -1)
  ELSE IF IsZero(y) THEN 1
  ELSE IF x.e < y.e THEN -1
  ELSE IF x.e > y.e THEN 1
  ELSE BCmp(x.m, y.m)

FCmp(x, y) ==
  IF IsZero(x) /\ IsZero(y) THEN 0
  ELSE IF IsZero(x) THEN (IF y.s = 1 THEN 1 ELSE -1)
  ELSE IF IsZero(y) THEN (IF x.s = 1 THEN -1 ELSE 1)
  ELSE IF x.s # y.s THEN (IF x.s = 1 THEN -1 ELSE 1)
  ELSE IF x.s = 0 THEN MagCmp(x, y) ELSE MagCmp(y, x)

FLt(x, y) == FCmp(x, y) < 0

FGt(x, y) == FCmp(x, y) > 0

FEq(x, y) == FCmp(x, y) = 0

FMaxOf(x, y) == IF FLt(x, y) THEN y ELSE x

FMinOf(x, y) == IF FLt(y, x) THEN y ELSE x

\* addition of magnitudes |x| >= |y| > 0: sign of x, |x| + |y| or |x| - |y|
FarGap == 60

\* y is below a quarter of the last bit of x: it only decides ties
Far(x, y) == x.e - y.e > FarGap

AddAligned(s, M, N, e, sub, sticky) ==
  RoundF(s, IF sub THEN BSub(M, N) ELSE BAdd(M, N), e, sticky)

AddMag(x, y, sub) ==
  AddAligned(x.s,
             BShl(x.m, IF Far(x, y) THEN 3 ELSE x.e - y.e),
             IF Far(x, y) THEN (IF sub THEN <<1>> ELSE << >>) ELSE y.m,
             IF Far(x, y) THEN x.e - 3 ELSE y.e,
             sub,
             Far(x, y))

FAdd(x, y) ==
  IF IsZero(x) THEN y
  ELSE IF IsZero(y) THEN x
  ELSE LET big   == IF MagCmp(x, y) >= 0 THEN x ELSE y
           small == IF MagCmp(x, y) >= 0 THEN y ELSE x
       IN  AddMag(big, small, x.s # y.s)

FSub(x, y) == FAdd(x, FNeg(y))

FMul(x, y) ==
  IF IsZero(x) \/ IsZero(y) THEN FZero
  ELSE RoundF((x.s + y.s) % 2, BMul(x.m, y.m), x.e + y.e, FALSE)

\* One limb of a quotient, floor(R / D) for R < D * Base and the top limb of
\* D at least Base / 2: the estimate from the leading limbs is at most two
\* too large (Knuth, Algorithm D).
RECURSIVE FixLimb(_, _, _)
FixLimb(R, D, q) == IF BCmp(BMulSmall(D, q), R) > 0 THEN FixLimb(R, D, q - 1) ELSE q

DivLimb(R, D) ==
  LET n   == Len(D)
      top == Limb(R, n + 1) * Base + Limb(R, n)
      est == top \div D[n]
  IN  FixLimb(R, D, IF est > Base - 1 THEN Base - 1 ELSE est)

PrependLimb(rest, q) == <<rest[1] \o <<q>>, rest[2]>>

\* <<floor(R * Base^k / D) as k + 1 limbs, whether a remainder is left>>
RECURSIVE LongDiv(_, _, _)
\* R1 is what is left of R after the leading limb q of the quotient
LongDivRest(R1, D, k, q) ==
  IF k = 0 THEN << <<q>>, R1 # << >> >>
  ELSE PrependLimb(LongDiv(BShiftLimbs(R1, 1), D, k - 1), q)

LongDivBy(R, D, k, q) == LongDivRest(BSub(R, BMulSmall(D, q)), D, k, q)

LongDiv(R, D, k) == LongDivBy(R, D, k, DivLimb(R, D))

\* quotient limbs computed beyond the leading one: 56 bits
GuardLimbs == 4

RoundQuot(s, qr, e) == RoundF(s, Trim(qr[1]), e, qr[2])

\* the divisor is shifted by sh to bring its top limb to at least Base / 2
DivShifted(x, y, sh) ==
  RoundQuot((x.s + y.s) % 2,
            LongDiv(BShl(x.m, sh), BShl(y.m, sh), GuardLimbs),
            x.e - y.e - LimbBits * GuardLimbs)

FDiv(x, y) ==
  IF IsZero(x) THEN FZero
  ELSE DivShifted(x, y, LimbBits * Len(y.m) - BitLen(y.m))

\* x / 0 is Infinity or NaN in the language (no exception is thrown): one
\* marker stands for both, and no operator is applied to it
NonFinite == [s |-> 0, m |-> << >>, e |-> 1]

FQuot(x, y) == IF IsZero(y) THEN NonFinite ELSE FDiv(x, y)

\* x % 2 for a finite x: the remainder has the sign of x and is exact
RECURSIVE FMod2(_)
FMod2(x) ==
  IF MagCmp(x, FromInt(2)) < 0 THEN x
  ELSE FMod2(FAdd(x, FromInt(IF x.s = 1 THEN 2 ELSE -2)))

\* ip is the integer part of the magnitude, c compares the fraction with 1/2
RoundTie(s, ip, c) ==
  IF s = 0 THEN ip + (IF c >= 0 THEN 1 ELSE 0) ELSE -(ip + (IF c > 0 THEN 1 ELSE 0))

RoundFrac(s, m, ip, sh) ==
  RoundTie(s, BToInt(ip), BCmp(BSub(m, BShl(ip, sh)), BShl(<<1>>, sh - 1)))

\* Math.round of a finite x below 2^31: the nearest integer, a tie towards
\* +Infinity
MathRound(x) ==
  IF IsZero(x) THEN 0
  ELSE IF x.e >= 0 THEN (IF x.s = 1 THEN -1 ELSE 1) * BToInt(BShl(x.m, x.e))
  ELSE IF -x.e > Precision THEN 0
  ELSE RoundFrac(x.s, x.m, BShr(x.m, -x.e), -x.e)

(***************************************************************************)
(* Strings                                                                 *)
(***************************************************************************)
Digit == <<"0", "1", "2", "3", "4", "5", "6", "7", "8", "9">>

IsDigit(c) == \E d \in 1..10 : Digit[d] = c

DigitVal(c) == (CHOOSE d \in 1..10 : Digit[d] = c) - 1

\* \s of the regular expression, for the white space the model writes
IsSpace(c) == c \in {" ", "\t", "\n"}

\* null (and undefined): a one-element sequence whose element is no character
Null == <<"null">>

\* the decimal digits of a natural number
RECURSIVE NatToStr(_)
NatToStr(k) ==
  IF k < 10 THEN <<Digit[k + 1]>> ELSE NatToStr(k \div 10) \o <<Digit[(k % 10) + 1]>>

IntToStr(k) == IF k < 0 THEN <<"-">> \o NatToStr(-k) ELSE NatToStr(k)

\* parseInt(t, 10) of a run of digits
RECURSIVE ParseDigits(_)
ParseDigits(t) ==
  IF t = << >> THEN 0
  ELSE 10 * ParseDigits(SubSeq(t, 1, Len(t) - 1)) + DigitVal(t[Len(t)])

(***************************************************************************)
(* The alpha channel is parsed (parseFloat), carried and printed (`${a}`)  *)
(* but never computed with.  It is modelled as the decimal number it       *)
(* denotes, d * 10^x with d a natural number not divisible by ten (0 is    *)
(* d = 0, x = 0): the language prints a binary64 as the shortest decimal   *)
(* that reads back to it, which for the short decimals of the model is     *)
(* that decimal.                                                           *)
(***************************************************************************)
RECURSIVE Canon(_, _)
Canon(d, x) ==
  IF d = 0 THEN [d |-> 0, x |-> 0]
  ELSE IF d % 10 = 0 THEN Canon(d \div 10, x + 1)
  ELSE [d |-> d, x |-> x]

One == [d |-> 1, x |-> 0]

\* parseFloat of a text of the shape \d*\.?\d+
ParseFloat(t) ==
  LET dots == {i \in 1..Len(t) : t[i] = "."}
      dot  == IF dots = {} THEN Len(t) + 1 ELSE CHOOSE i \in dots : TRUE
      int  == SubSeq(t, 1, dot - 1)
      frac == SubSeq(t, dot + 1, Len(t))
  IN  Canon(ParseDigits(int \o frac), -Len(frac))

\* Number::toString: `${a}`
NumberToString(a) ==
  LET ds == NatToStr(a.d)
      k  == Len(ds)
      n  == k + a.x
  IN  IF a.d = 0 THEN <<"0">>
      ELSE IF k <= n /\ n <= 21 THEN ds \o [i \in 1..(n - k) |-> "0"]
      ELSE IF 0 < n /\ n <= 21 THEN SubSeq(ds, 1, n) \o <<".">> \o SubSeq(ds, n + 1, k)
      ELSE IF -6 < n /\ n <= 0 THEN <<"0", ".">> \o [i \in 1..(-n) |-> "0"] \o ds
      ELSE LET ex == <<"e">> \o (IF n - 1 < 0 THEN <<"-">> ELSE <<"+">>)
                       \o NatToStr(IF n - 1 < 0 THEN 1 - n ELSE n - 1)
           IN  IF k = 1 THEN ds \o ex
               ELSE <<ds[1], ".">> \o SubSeq(ds, 2, k) \o ex

(***************************************************************************)
(* extractRGBA.  The regular expression                                    *)
(*   /rgba?\s*\(\s*(\d+),\s*(\d+),\s*(\d+)(?:,\s*(\d*\.?\d+))?\s*\)/       *)
(* is matched piece by piece from a start position, the way the engine     *)
(* does it.  Each greedy piece is followed by a piece that starts with a   *)
(* character the greedy one cannot hold, so giving characters back never   *)
(* helps: a run is taken whole.  The alpha text must end where \s*\)       *)
(* begins, so it is the whole run of digits and dots, of the shape         *)
(* \d*\.?\d+.  The optional group is tried first, then left out.           *)
(***************************************************************************)
At(s, p) == IF 1 <= p /\ p <= Len(s) THEN s[p] ELSE ""

RECURSIVE SkipSpaces(_, _)
SkipSpaces(s, p) == IF IsSpace(At(s, p)) THEN SkipSpaces(s, p + 1) ELSE p

RECURSIVE SkipDigits(_, _)
SkipDigits(s, p) == IF IsDigit(At(s, p)) THEN SkipDigits(s, p + 1) ELSE p

RECURSIVE SkipNumeric(_, _)
SkipNumeric(s, p) ==
  IF IsDigit(At(s, p)) \/ At(s, p) = "." THEN SkipNumeric(s, p + 1) ELSE p

\* \d*\.?\d+ matches the whole of t
IsAlphaText(t) ==
  /\ t # << >>
  /\ IsDigit(t[Len(t)])
  /\ Cardinality({i \in 1..Len(t) : t[i] = "."}) <= 1

\* the pieces of the expression up to the optional group, the group, the end
PatternHead ==
  <<"r", "g", "b", "a?", "\\s*", "(", "\\s*", "(\\d+)", ",", "\\s*", "(\\d+)",
    ",", "\\s*", "(\\d+)">>

PatternAlpha == <<",", "\\s*", "(\\d*\\.?\\d+)">>

PatternEnd == <<"\\s*", ")">>

NoMatch == [found |-> FALSE, groups |-> << >>]

\* the pieces matched from position p on, groups captured so far
RECURSIVE MatchPieces(_, _, _, _)
MatchPieces(s, p, pieces, groups) ==
  IF pieces = << >> THEN [found |-> TRUE, groups |-> groups]
  ELSE IF Head(pieces) = "a?"
  THEN MatchPieces(s, IF At(s, p) = "a" THEN p + 1 ELSE p, Tail(pieces), groups)
  ELSE IF Head(pieces) = "\\s*"
  THEN MatchPieces(s, SkipSpaces(s, p), Tail(pieces), groups)
  ELSE IF Head(pieces) = "(\\d+)"
  THEN IF SkipDigits(s, p) > p
       THEN MatchPieces(s, SkipDigits(s, p), Tail(pieces),
                        Append(groups, SubSeq(s, p, SkipDigits(s, p) - 1)))
       ELSE NoMatch
  ELSE IF Head(pieces) = "(\\d*\\.?\\d+)"
  THEN IF IsAlphaText(SubSeq(s, p, SkipNumeric(s, p) - 1))
       THEN MatchPieces(s, SkipNumeric(s, p), Tail(pieces),
                        Append(groups, SubSeq(s, p, SkipNumeric(s, p) - 1)))
       ELSE NoMatch
  ELSE IF At(s, p) = Head(pieces)
  THEN MatchPieces(s, p + 1, Tail(pieces), groups)
  ELSE NoMatch

\* the match that starts at position i, if there is one
MatchAt(s, i) ==
  IF MatchPieces(s, i, PatternHead \o PatternAlpha \o PatternEnd, << >>).found
  THEN MatchPieces(s, i, PatternHead \o PatternAlpha \o PatternEnd, << >>)
  ELSE MatchPieces(s, i, PatternHead \o PatternEnd, << >>)

\* the leftmost match from position i on
RECURSIVE MatchFrom(_, _)
MatchFrom(s, i) ==
  IF i > Len(s) THEN NoMatch
  ELSE IF MatchAt(s, i).found THEN MatchAt(s, i)
  ELSE MatchFrom(s, i + 1)

\* color?.match(...): nothing for null
RegexMatch(color) == IF color = Null THEN NoMatch ELSE MatchFrom(color, 1)

White == <<"w", "h", "i", "t", "e">>

\* [r, g, b, a] of a match; rgbaMatch[4] is undefined without the group
ParseGroups(groups) ==
  << ParseDigits(groups[1]), ParseDigits(groups[2]), ParseDigits(groups[3]),
     IF Len(groups) > 3 THEN ParseFloat(groups[4]) ELSE One >>

\* the fallback without console.error
ExtractMatchSilent(rgbaMatch) ==
  IF rgbaMatch.found
  THEN [rgba |-> ParseGroups(rgbaMatch.groups), diag |-> FALSE]
  ELSE [rgba |-> <<0, 0, 0, One>>, diag |-> FALSE]

ExtractMatch(rgbaMatch) ==
  IF rgbaMatch.found
  THEN [rgba |-> ParseGroups(rgbaMatch.groups), diag |-> FALSE]
  ELSE [rgba |-> <<0, 0, 0, One>>, diag |-> TRUE]

\* the value returned, and whether console.error was called
extractRGBA(color) ==
  IF color = White
  THEN [rgba |-> <<255, 255, 255, One>>, diag |-> FALSE]
  ELSE ExtractMatch(RegexMatch(color))

(***************************************************************************)
(* Colour space conversion                                                 *)
(***************************************************************************)
FMax3(x, y, z) == FMaxOf(FMaxOf(x, y), z)

FMin3(x, y, z) == FMinOf(FMinOf(x, y), z)

FHalf == FDiv(FromInt(1), FromInt(2))

\* l = (max + min) / 2
Lightness(max, min) == FQuot(FAdd(max, min), FromInt(2))

\* s, for delta = max - min and l the lightness
Saturation(max, min, delta, l) ==
  IF IsZero(delta) THEN FZero
  ELSE IF FGt(l, FHalf)
  THEN FQuot(delta, FSub(FSub(FromInt(2), max), min))
  ELSE FQuot(delta, FAdd(max, min))

\* the switch on max without (g < b ? 6 : 0)
HueSwitchNoWrap(r, g, b, max, delta) ==
  IF FEq(max, r) THEN FQuot(FSub(g, b), delta)
  ELSE IF FEq(max, g) THEN FAdd(FQuot(FSub(b, r), delta), FromInt(2))
  ELSE IF FEq(max, b) THEN FAdd(FQuot(FSub(r, g), delta), FromInt(4))
  ELSE FZero

\* the switch on max: h before the division by 6
HueSwitch(r, g, b, max, delta) ==
  IF FEq(max, r)
  THEN FAdd(FQuot(FSub(g, b), delta), IF FLt(g, b) THEN FromInt(6) ELSE FZero)
  ELSE IF FEq(max, g) THEN FAdd(FQuot(FSub(b, r), delta), FromInt(2))
  ELSE IF FEq(max, b) THEN FAdd(FQuot(FSub(r, g), delta), FromInt(4))
  ELSE FZero

\* h without the normalisation h /= 6
HueNotNormalised(r, g, b, max, delta) ==
  IF IsZero(delta) THEN FZero ELSE HueSwitch(r, g, b, max, delta)

Hue(r, g, b, max, delta) ==
  IF IsZero(delta) THEN FZero ELSE FQuot(HueSwitch(r, g, b, max, delta), FromInt(6))

\* the body of rgbToHsl once max and min are known
HslOfRange(r, g, b, max, min, a) ==
  << FMul(Hue(r, g, b, max, FSub(max, min)), FromInt(360)),
     FMul(Saturation(max, min, FSub(max, min), Lightness(max, min)), FromInt(100)),
     FMul(Lightness(max, min), FromInt(100)),
     a >>

\* the body of rgbToHsl after r /= 255, g /= 255, b /= 255
HslOfUnit(r, g, b, a) == HslOfRange(r, g, b, FMax3(r, g, b), FMin3(r, g, b), a)

\* <<h, s, l, a>>
rgbToHsl(r, g, b, a) ==
  HslOfUnit(FQuot(FromInt(r), FromInt(255)), FQuot(FromInt(g), FromInt(255)),
            FQuot(FromInt(b), FromInt(255)), a)

\* `rgba(${r}, ${g}, ${b}, ${a})`
Format(r, g, b, a) ==
  <<"r", "g", "b", "a", "(">> \o IntToStr(r) \o <<",", " ">> \o IntToStr(g)
    \o <<",", " ">> \o IntToStr(b) \o <<",", " ">> \o NumberToString(a) \o <<")">>

\* c = (1 - Math.abs(2 * l - 1)) * s
Chroma(s, l) ==
  FMul(FSub(FromInt(1), FAbs(FSub(FMul(FromInt(2), l), FromInt(1)))), s)

\* x = c * (1 - Math.abs(((h / 60) % 2) - 1))
SecondLargest(h, c) ==
  FMul(c, FSub(FromInt(1), FAbs(FSub(FMod2(FQuot(h, FromInt(60))), FromInt(1)))))

\* m = l - c / 2
LightnessMatch(l, c) == FSub(l, FQuot(c, FromInt(2)))

\* the if/else chain on h: <<r, g, b>> before m is added
HueSector(h, c, x) ==
  IF FLt(h, FromInt(60)) THEN <<c, x, FZero>>
  ELSE IF FLt(h, FromInt(120)) THEN <<x, c, FZero>>
  ELSE IF FLt(h, FromInt(180)) THEN <<FZero, c, x>>
  ELSE IF FLt(h, FromInt(240)) THEN <<FZero, x, c>>
  ELSE IF FLt(h, FromInt(300)) THEN <<x, FZero, c>>
  ELSE <<c, FZero, x>>

\* Math.round((v + m) * 255)
Channel(v, m) == MathRound(FMul(FAdd(v, m), FromInt(255)))

RgbOfSector(rgb, m, a) ==
  Format(Channel(rgb[1], m), Channel(rgb[2], m), Channel(rgb[3], m), a)

\* the body of hslToRgb once c is known
RgbOfChroma(h, l, c, a) ==
  RgbOfSector(HueSector(h, c, SecondLargest(h, c)), LightnessMatch(l, c), a)

\* the body of hslToRgb after s /= 100, l /= 100
RgbOfUnit(h, s, l, a) == RgbOfChroma(h, l, Chroma(s, l), a)

hslToRgb(h, s, l, a) == RgbOfUnit(h, FQuot(s, FromInt(100)), FQuot(l, FromInt(100)), a)

(***************************************************************************)
(* Shades and tints.  An entry is written with the lightness it was        *)
(* computed from, [l |-> newLightness, c |-> string]; the functions of the *)
(* source return the strings.                                              *)
(***************************************************************************)
Reverse(q) == [j \in 1..Len(q) |-> q[Len(q) + 1 - j]]

Strings(entries) == [j \in 1..Len(entries) |-> entries[j].c]

\* lightnessStep without the test numberOfShades * 10 > l
shadeStepSpread(l, n) == IF IsZero(l) THEN FZero ELSE FQuot(l, FromInt(n))

\* lightnessStep without the redistribution
shadeStepFixed(l, n) == IF IsZero(l) THEN FZero ELSE FromInt(10)

\* lightnessStep of calculateShades, for base lightness l and n shades
shadeStep(l, n) ==
  IF IsZero(l) THEN FZero
  ELSE IF FGt(FMul(FromInt(n), FromInt(10)), l) THEN FQuot(l, FromInt(n))
  ELSE FromInt(10)

\* lightnessStep of calculateTints
tintStep(l, n) ==
  IF FEq(l, FromInt(100)) THEN FZero
  ELSE IF FGt(FMul(FromInt(n), FromInt(10)), FSub(FromInt(100), l))
  THEN FQuot(FSub(FromInt(100), l), FromInt(n))
  ELSE FromInt(10)

\* the loop of calculateShades: entry k is iteration i = k - 1
shadeLoop(hsl, n) ==
  LET step == shadeStep(hsl[3], n)
  IN  [k \in 1..n |->
        LET newLightness == FMaxOf(FZero, FSub(hsl[3], FMul(FromInt(k), step)))
        IN  [l |-> newLightness, c |-> hslToRgb(hsl[1], hsl[2], newLightness, hsl[4])]]

\* the loop of calculateTints
tintLoop(hsl, n) ==
  LET step == tintStep(hsl[3], n)
  IN  [k \in 1..n |->
        LET newLightness == FMinOf(FromInt(100), FAdd(hsl[3], FMul(FromInt(k), step)))
        IN  [l |-> newLightness, c |-> hslToRgb(hsl[1], hsl[2], newLightness, hsl[4])]]

\* calculateShades without the reversal
shadesNotReversed(shades) == shades

\* calculateTints with a reversal
tintsReversed(tints) == Reverse(tints)

\* return shades.reverse()
shadesReturned(shades) == Reverse(shades)

\* return tints
tintsReturned(tints) == tints

HslOf(rgba) == rgbToHsl(rgba[1], rgba[2], rgba[3], rgba[4])

BaseHsl(selectedColor) == HslOf(extractRGBA(selectedColor).rgba)

shadeEntries(selectedColor, numberOfShades) ==
  shadesReturned(shadeLoop(BaseHsl(selectedColor), numberOfShades))

tintEntries(selectedColor, numberOfTints) ==
  tintsReturned(tintLoop(BaseHsl(selectedColor), numberOfTints))

calculateShades(selectedColor, numberOfShades) ==
  Strings(shadeEntries(selectedColor, numberOfShades))

calculateTints(selectedColor, numberOfTints) ==
  Strings(tintEntries(selectedColor, numberOfTints))

(***************************************************************************)
(* getAbsolutePosition.  A scene is the chain of nodes from the node the   *)
(* function is given (index 1) up to the outermost ancestor below the      *)
(* canvas root: node i has id i, its parent is node i + 1, and the parent  *)
(* of the last one is the root, whose id is Len(chain) + 1.  For each node *)
(* the scene says what framer.getRect answers (<< >> for null, <<rect>>   *)
(* for a rect) and whether framer.getParent answers a node.  Coordinates   *)
(* are integers.                                                           *)
(***************************************************************************)
MaxDepth == 3

Rects == {[x |-> -4, y |-> 3, height |-> 10], [x |-> 25, y |-> -1, height |-> 30]}

NoRect == << >>

SceneNodes == [rect : {<<r>> : r \in Rects} \cup {NoRect}, parent : BOOLEAN]

Scenes == UNION {[1..n -> SceneNodes] : n \in 1..MaxDepth}

rootNode(chain) == Len(chain) + 1

\* the local variables after lines 254-257
WalkStart ==
  [currentNode |-> 1, absoluteX |-> 0, absoluteY |-> 0, returned |-> FALSE, diag |-> FALSE]

WalkReturn(w, logged) == [w EXCEPT !.returned = TRUE, !.diag = logged]

\* lines 268-271, with the height added at every node
AccumulateHeightEach(w, rect) ==
  [w EXCEPT !.absoluteX = @ + rect.x, !.absoluteY = @ + rect.height + rect.y]

\* lines 268-271
Accumulate(w, rect) ==
  [w EXCEPT !.absoluteX = @ + rect.x,
            !.absoluteY = @ + (IF w.currentNode = 1 THEN rect.height ELSE 0) + rect.y]

\* lines 273-279, after the sums
ToParent(chain, w) ==
  IF ~chain[w.currentNode].parent
    THEN WalkReturn(w, TRUE)
    ELSE [w EXCEPT !.currentNode = @ + 1]

\* the loop test of line 260 and one pass through its body, or line 282
LoopIteration(chain, w) ==
  IF w.currentNode = rootNode(chain)
    THEN WalkReturn(w, FALSE)
    ELSE IF chain[w.currentNode].rect = NoRect
      THEN WalkReturn(w, TRUE)
      ELSE ToParent(chain, Accumulate(w, chain[w.currentNode].rect[1]))

RECURSIVE WalkFrom(_, _)
WalkFrom(chain, w) == IF w.returned THEN w ELSE WalkFrom(chain, LoopIteration(chain, w))

\* the value the promise resolves to
XY(w) == [x |-> w.absoluteX, y |-> w.absoluteY]

getAbsolutePosition(chain) == XY(WalkFrom(chain, WalkStart))

(***************************************************************************)
(* State.  The App component keeps selectedColor, numberOfShades,          *)
(* numberOfTints, colorPalette and selectionAbsoluteXY in its state (<< >> *)
(* for a null position); fn, arg and ret record the                        *)
(* application of the functions of utilities.ts to an argument: arg is the *)
(* argument, fn the functions applied so far, ret the last value returned. *)
(***************************************************************************)
VARIABLES selectedColor, numberOfShades, numberOfTints, colorPalette,
          selection, selectionAbsoluteXY, pending, fn, arg, ret

vars ==
  <<selectedColor, numberOfShades, numberOfTints, colorPalette,
    selection, selectionAbsoluteXY, pending, fn, arg, ret>>

appVars ==
  <<selectedColor, numberOfShades, numberOfTints, colorPalette,
    selection, selectionAbsoluteXY, pending>>

\* selection is useSelection(): << >> or the selected nodes, of which only
\* the first is read.  pending holds the scenes of the calls of
\* getAbsolutePosition that fetchLocation awaits; calls on the same scene
\* resolve to the same value and are kept once.
positionVars == <<selection, selectionAbsoluteXY, pending>>

callVars == <<fn, arg, ret>>

\* the Stepper props of the two rows
StepperMin == 1

StepperMax == 10

DefaultShades == 4

DefaultTints == 4

\* largest count the model sets the steppers to
MaxSteps == 5

\* largest count the model passes to calculateShades and calculateTints
MaxCount == 10

\* number of sample values of a colour channel, spread over 0..255
ChannelSamples == 7

Channels == {(255 * k) \div (ChannelSamples - 1) : k \in 0..(ChannelSamples - 1)} \cup {1, 254}

\* alpha values: 1, 0.5, 0 and 0.25, and two that print with an exponent
Alphas == {One, Canon(5, -1), Canon(0, 0), Canon(25, -2), Canon(1, -7), Canon(15, -8)}

\* rgb(r, g, b) and rgba(r, g, b, a) with the white space `before` and
\* `after` each comma; atext is the alpha as written, << >> for none
Spaced(r, g, b, atext, before, after) ==
  (IF atext = << >> THEN <<"r", "g", "b">> ELSE <<"r", "g", "b", "a">>)
    \o <<"(">> \o NatToStr(r) \o before \o <<",">> \o after \o NatToStr(g)
    \o before \o <<",">> \o after \o NatToStr(b)
    \o (IF atext = << >> THEN << >> ELSE before \o <<",">> \o after \o atext)
    \o <<")">>

RgbText(r, g, b) == Spaced(r, g, b, << >>, << >>, <<" ">>)

NotAColor == <<"n", "o", "t", "-", "a", "-", "c", "o", "l", "o", "r">>

HexColor == <<"#", "4", "e", "7", "8", "9", "8">>

\* strings that are neither "white" nor of the rgb()/rgba() form
Unparseable ==
  { NotAColor, HexColor, << >>,
    <<"b", "l", "a", "c", "k">>,
    <<"R", "G", "B", "(", "1", ",", "2", ",", "3", ")">>,
    <<"r", "g", "b", "(", "1", ",", "2", ")">>,
    <<"r", "g", "b", "(", "1", ".", "5", ",", "2", ",", "3", ")">>,
    <<"r", "g", "b", "(", "-", "1", ",", "2", ",", "3", ")">>,
    <<"r", "g", "b", "a", "(", "1", ",", "2", ",", "3", ",", "1", ".", ")">>,
    <<"r", "g", "b", "(", "1", ",", "2", ",", "3">>,
    <<"h", "s", "l", "(", "0", ",", "0", "%", ",", "5", "0", "%", ")">> }

Truthy(v) == v # Null /\ v # << >>

(***************************************************************************)
(* The App component                                                       *)
(***************************************************************************)
\* the palette with the base colour put first
PaletteBaseFirst(color, shades, tints) ==
  IF Truthy(color)
  THEN <<color>> \o calculateShades(color, shades) \o calculateTints(color, tints)
  ELSE Null

\* the effect on [selectedColor, numberOfShades, numberOfTints]
PaletteEffect(color, shades, tints) ==
  IF Truthy(color)
  THEN calculateShades(color, shades) \o <<color>> \o calculateTints(color, tints)
  ELSE Null

\* what selection[0].backgroundColor?.toString() is in the model
HostColors ==
  { Null, White, HexColor, RgbText(78, 120, 152), Format(0, 0, 0, Canon(5, -1)),
    Format(255, 255, 255, One) }

StepperValues == {v \in StepperMin..StepperMax : v <= MaxSteps}

InitApp ==
  /\ selectedColor = Null
  /\ numberOfShades = DefaultShades
  /\ numberOfTints = DefaultTints
  /\ colorPalette = Null
  /\ selection = << >>
  /\ selectionAbsoluteXY = << >>
  /\ pending = {}

InitCall(inputs) ==
  /\ fn = << >>
  /\ arg \in inputs
  /\ ret = << >>

\* a node of the canvas: what backgroundColor?.toString() gives (Null for
\* a node without a background fill) and the scene from it up to the root
Node(fill, chain) == [fill |-> fill, chain |-> chain]

Frame(rect) == [rect |-> <<rect>>, parent |-> TRUE]

\* frames with the fills of HostColors, stacked at one place below the root
Stacked == <<Frame([x |-> 25, y |-> -1, height |-> 30])>>

PaletteSelections == {<< >>} \cup {<<Node(c, Stacked)>> : c \in HostColors \ {Null}}

\* line 60: the colour of the first selected node, or null
ColorOf(sel) == IF Len(sel) > 0 THEN sel[1].fill ELSE Null

\* fetchLocation starts a call of getAbsolutePosition for selection[0]
FetchLocation(sel) == IF Len(sel) > 0 THEN pending \cup {sel[1].chain} ELSE pending

\* the selection changes to sel: the first effect sets selectedColor and
\* starts fetchLocation, the second recomputes the palette
SelectionChangeTo(sel) ==
  /\ fn = << >>
  /\ sel # selection
  /\ selection' = sel
  /\ selectedColor' = ColorOf(sel)
  /\ colorPalette' = PaletteEffect(ColorOf(sel), numberOfShades, numberOfTints)
  /\ pending' = FetchLocation(sel)
  /\ UNCHANGED <<numberOfShades, numberOfTints, selectionAbsoluteXY, callVars>>

SelectionChange == \E sel \in PaletteSelections : SelectionChangeTo(sel)

\* an awaited getAbsolutePosition resolves and fetchLocation stores it
FetchComplete ==
  \E chain \in pending :
    /\ fn = << >>
    /\ selectionAbsoluteXY' = <<getAbsolutePosition(chain)>>
    /\ pending' = pending \ {chain}
    /\ UNCHANGED <<selectedColor, numberOfShades, numberOfTints, colorPalette,
                   selection, callVars>>

\* a stepper changes: the palette effect runs again when one of its
\* dependencies has changed
ChangeShades ==
  \E value \in StepperValues :
    /\ fn = << >>
    /\ numberOfShades' = value
    /\ colorPalette' = IF value = numberOfShades
                         THEN colorPalette
                         ELSE PaletteEffect(selectedColor, value, numberOfTints)
    /\ UNCHANGED <<selectedColor, numberOfTints, positionVars, callVars>>

ChangeTints ==
  \E value \in StepperValues :
    /\ fn = << >>
    /\ numberOfTints' = value
    /\ colorPalette' = IF value = numberOfTints
                         THEN colorPalette
                         ELSE PaletteEffect(selectedColor, numberOfShades, value)
    /\ UNCHANGED <<selectedColor, numberOfShades, positionVars, callVars>>

\* a createColorStyle or createFrameNode request: the number at the end of
\* its name, whether " (Base)" follows it, and its colour
Item(suffix, base, color) == [suffix |-> suffix, base |-> base, color |-> color]

\* the loops over the shades, i = 0 .. numberOfShades - 1
ShadeItems(palette, shades) ==
  [k \in 1..shades |-> Item(Len(palette) - (k - 1), FALSE, palette[k])]

\* the base named like a tint: no marker
BaseItemUnmarked(palette, shades, color) == Item(Len(palette) - shades, FALSE, color)

BaseItem(palette, shades, color) == Item(Len(palette) - shades, TRUE, color)

\* the loops over the tints, i = numberOfShades + 1 .. colorPalette.length - 1
TintItems(palette, shades) ==
  [k \in 1..(Len(palette) - shades - 1) |->
     Item(Len(palette) - (shades + k), FALSE, palette[shades + k + 1])]

\* the parent frame of handleAddToCanvas: left, top and height without px
ParentFrame(xy, palette) ==
  [left |-> IF xy # << >> THEN xy[1].x ELSE 0,
   top |-> IF xy # << >> THEN xy[1].y + 150 ELSE 0,
   height |-> Len(palette) * 100]

\* the numbers in the names of the handleAddColorStyles that computes the
\* palette itself: totalColors - i for the shades and the base,
\* numberOfTints - i for the tints
NumbersFromCounts(shades, tints) ==
  [k \in 1..shades |-> (shades + 1 + tints) - (k - 1)]
    \o <<(shades + 1 + tints) - shades>>
    \o [k \in 1..tints |-> tints - (k - 1)]

Requests(parent, items) == [parent |-> parent, items |-> items]

\* the buttons are disabled without a selected colour.  What a handler asks
\* of the host is recorded in ret; the handlers read the state and leave it
\* alone, and the model follows the App up to the first press.
handleAddToCanvas ==
  /\ fn = << >>
  /\ Truthy(selectedColor)
  /\ fn' = <<"handleAddToCanvas">>
  /\ ret' = IF colorPalette = Null
              THEN Requests(<< >>, << >>)
              ELSE Requests(<<ParentFrame(selectionAbsoluteXY, colorPalette)>>,
                            ShadeItems(colorPalette, numberOfShades)
                              \o (IF Truthy(selectedColor)
                                    THEN <<BaseItem(colorPalette, numberOfShades, selectedColor)>>
                                    ELSE << >>)
                              \o TintItems(colorPalette, numberOfShades))
  /\ UNCHANGED <<arg, appVars>>

handleAddColorStyles ==
  /\ fn = << >>
  /\ Truthy(selectedColor)
  /\ fn' = <<"handleAddColorStyles">>
  /\ ret' = IF colorPalette = Null
              THEN Requests(<< >>, << >>)
              ELSE Requests(<< >>,
                            ShadeItems(colorPalette, numberOfShades)
                              \o <<BaseItem(colorPalette, numberOfShades, selectedColor)>>
                              \o TintItems(colorPalette, numberOfShades))
  /\ UNCHANGED <<arg, appVars>>

Init == InitApp /\ InitCall({<< >>})

Next ==
  \/ SelectionChange
  \/ FetchComplete
  \/ ChangeShades
  \/ ChangeTints
  \/ handleAddToCanvas
  \/ handleAddColorStyles

Spec == Init /\ [][Next]_vars

(***************************************************************************)
(* The App on a canvas of nodes at different places, with fills whose      *)
(* palette is short to compute                                             *)
(***************************************************************************)
Inner == [x |-> -4, y |-> 3, height |-> 10]

Outer == [x |-> 25, y |-> -1, height |-> 30]

CanvasNodes ==
  { Node(Null, <<Frame(Inner)>>),
    Node(White, <<Frame(Outer)>>),
    Node(White, <<Frame(Inner), Frame(Outer)>>),
    Node(HexColor, <<Frame(Inner), Frame(Inner)>>) }

CanvasSelections == {<< >>} \cup {<<n>> : n \in CanvasNodes}

SelectionChangeOnCanvas == \E sel \in CanvasSelections : SelectionChangeTo(sel)

NextSelection == SelectionChangeOnCanvas \/ FetchComplete \/ handleAddToCanvas

SpecSelection == Init /\ [][NextSelection]_vars

(***************************************************************************)
(* extractRGBA applied to a string                                         *)
(***************************************************************************)
Blanks == {<< >>, <<" ">>, <<" ", " ">>, <<"\t">>}

AlphaTexts == {<< >>, <<"1">>, <<"0", ".", "5">>, <<".", "2", "5">>, <<"0">>, <<"0", ".", "5", "0">>}

ParseChannels == {<<255, 0, 0>>, <<78, 120, 152>>, <<0, 0, 7>>}

SpacedInputs ==
  { Spaced(c[1], c[2], c[3], t, before, after) :
      c \in ParseChannels, t \in AlphaTexts, before \in Blanks, after \in Blanks }

\* strings the pattern matches whose numbers are large
LargeNumberInputs ==
  { RgbText(300, 0, 0), RgbText(0, 256, 0), RgbText(12, 34, 1000),
    Spaced(0, 0, 0, <<"5">>, << >>, <<" ">>),
    Spaced(10, 20, 30, <<"1", ".", "5">>, << >>, <<" ">>) }

ParseInputs ==
  {Null, White} \cup Unparseable \cup SpacedInputs \cup LargeNumberInputs
    \cup {Format(c[1], c[2], c[3], a) : c \in ParseChannels, a \in Alphas}

CallExtractRGBA ==
  /\ fn = << >>
  /\ fn' = <<"extractRGBA">>
  /\ ret' = extractRGBA(arg)
  /\ UNCHANGED <<arg, appVars>>

NextParse == CallExtractRGBA

InitParse == InitApp /\ InitCall(ParseInputs)

SpecParse == InitParse /\ [][NextParse]_vars

(***************************************************************************)
(* rgbToHsl, then hslToRgb on its result, then extractRGBA on the string   *)
(***************************************************************************)
ConvertInputs ==
  {<<r, g, b, One>> : r \in Channels, g \in Channels, b \in Channels}
    \cup {<<c[1], c[2], c[3], a>> : c \in ParseChannels \cup {<<0, 0, 0>>}, a \in Alphas}

CallRgbToHsl ==
  /\ fn = << >>
  /\ fn' = <<"rgbToHsl">>
  /\ ret' = rgbToHsl(arg[1], arg[2], arg[3], arg[4])
  /\ UNCHANGED <<arg, appVars>>

CallHslToRgb ==
  /\ fn = <<"rgbToHsl">>
  /\ fn' = <<"rgbToHsl", "hslToRgb">>
  /\ ret' = hslToRgb(ret[1], ret[2], ret[3], ret[4])
  /\ UNCHANGED <<arg, appVars>>

CallParseBack ==
  /\ fn = <<"rgbToHsl", "hslToRgb">>
  /\ fn' = <<"rgbToHsl", "hslToRgb", "extractRGBA">>
  /\ ret' = extractRGBA(ret)
  /\ UNCHANGED <<arg, appVars>>

NextConvert == CallRgbToHsl \/ CallHslToRgb \/ CallParseBack

InitConvert == InitApp /\ InitCall(ConvertInputs)

SpecConvert == InitConvert /\ [][NextConvert]_vars

(***************************************************************************)
(* calculateShades and calculateTints applied to a colour and a count      *)
(***************************************************************************)
BaseColors ==
  { Null, White, NotAColor,
    Format(255, 0, 0, One), RgbText(78, 120, 152), RgbText(59, 40, 8),
    RgbText(38, 253, 111), RgbText(1, 1, 1), RgbText(254, 254, 254),
    RgbText(0, 0, 0), RgbText(255, 255, 255) }
    \cup {Format(0, 0, 0, a) : a \in Alphas}
    \cup {Format(255, 255, 255, a) : a \in Alphas}

GenerateInputs == [color : BaseColors, n : 0..MaxCount]

CallCalculateShades ==
  /\ fn = << >>
  /\ fn' = <<"calculateShades">>
  /\ ret' = [entries |-> shadeEntries(arg.color, arg.n),
             base    |-> BaseHsl(arg.color),
             step    |-> shadeStep(BaseHsl(arg.color)[3], arg.n)]
  /\ UNCHANGED <<arg, appVars>>

CallCalculateTints ==
  /\ fn = << >>
  /\ fn' = <<"calculateTints">>
  /\ ret' = [entries |-> tintEntries(arg.color, arg.n),
             base    |-> BaseHsl(arg.color),
             step    |-> tintStep(BaseHsl(arg.color)[3], arg.n)]
  /\ UNCHANGED <<arg, appVars>>

NextGenerate == CallCalculateShades \/ CallCalculateTints

InitGenerate == InitApp /\ InitCall(GenerateInputs)

SpecGenerate == InitGenerate /\ [][NextGenerate]_vars
(***************************************************************************)
(* getAbsolutePosition called on a scene                                   *)
(***************************************************************************)
CallGetAbsolutePosition ==
  /\ fn = << >>
  /\ fn' = <<"getAbsolutePosition">>
  /\ ret' = WalkStart
  /\ UNCHANGED <<arg, appVars>>

\* the function resumes after an await and runs to the next one or returns
WalkStep ==
  /\ fn = <<"getAbsolutePosition">>
  /\ ~ret.returned
  /\ ret' = LoopIteration(arg, ret)
  /\ UNCHANGED <<fn, arg, appVars>>

NextPosition == CallGetAbsolutePosition \/ WalkStep

InitPosition == InitApp /\ InitCall(Scenes)

\* the host answers every request, so a started call keeps running
SpecPosition == InitPosition /\ [][NextPosition]_vars /\ WF_vars(NextPosition)

(***************************************************************************)
(* Properties                                                              *)
(***************************************************************************)
ShadesCalled == fn = <<"calculateShades">>

TintsCalled == fn = <<"calculateTints">>

Parsed == fn = <<"extractRGBA">>

Converted == fn = <<"rgbToHsl", "hslToRgb">>

ParsedBack == fn = <<"rgbToHsl", "hslToRgb", "extractRGBA">>

Parseable(color) == ~extractRGBA(color).diag

Dist(x, y) == FAbs(FSub(x, y))

\* below a millionth: what rounding leaves of a lightness meant to be 0
Negligible(x) == MagCmp(x, FDiv(FromInt(1), FromInt(2^20))) < 0

\* the lightness of iteration i of calculateShades, the entries being
\* returned in reverse
ShadeLightness(i) == ret.entries[arg.n + 1 - i].l

TintLightness(i) == ret.entries[i].l

\* numberOfShades * 10 > l, the test of the redistribution
ShadesSpread == FGt(FMul(FromInt(arg.n), FromInt(10)), ret.base[3])

TintsSpread == FGt(FMul(FromInt(arg.n), FromInt(10)), FSub(FromInt(100), ret.base[3]))

\* C1 (as amended): for a parseable base colour of lightness L0 > 0 and a
\* count n >= 2, the first entry calculateShades returns is farther from L0
\* than the last: the darkest shade comes first, the shade closest to the
\* base comes last.
C1_DarkestShadeFirst ==
  (ShadesCalled /\ Parseable(arg.color) /\ ~IsZero(ret.base[3]) /\ arg.n >= 2)
    => FLt(Dist(ret.base[3], ret.entries[arg.n].l), Dist(ret.base[3], ret.entries[1].l))

\* C1 (as stated): the first entry returned is closer to L0 than the last.
C1_ClosestShadeFirst ==
  (ShadesCalled /\ Parseable(arg.color) /\ ~IsZero(ret.base[3]) /\ arg.n >= 2)
    => FLt(Dist(ret.base[3], ret.entries[1].l), Dist(ret.base[3], ret.entries[arg.n].l))

C1_Witness ==
  /\ ShadesCalled
  /\ arg = [color |-> RgbText(78, 120, 152), n |-> 5]
  /\ ret.entries[1].c = Format(0, 0, 0, One)
  /\ ret.entries[5].c = Format(62, 96, 122, One)
  /\ FLt(ret.entries[1].l, ret.entries[5].l)

\* the lightness the program reads off a colour string
StringLightness(color) == BaseHsl(color)[3]

NonDecreasing(ls) == \A i \in 1..(Len(ls) - 1) : ~FGt(ls[i], ls[i + 1])

\* the lightness each entry of the palette was generated with
RECURSIVE ReadBack(_)
ReadBack(palette) ==
  IF palette = << >>
    THEN << >>
    ELSE <<StringLightness(Head(palette))>> \o ReadBack(Tail(palette))

LightnessOf(entries) == [i \in 1..Len(entries) |-> entries[i].l]

PaletteLightness ==
  LightnessOf(shadeEntries(selectedColor, numberOfShades))
    \o <<StringLightness(selectedColor)>>
    \o LightnessOf(tintEntries(selectedColor, numberOfTints))

C3_ExactCount ==
  (ShadesCalled \/ TintsCalled)
    => /\ Len(ret.entries) = arg.n
       /\ (arg.n = 0 => ret.entries = << >>)
       /\ ret.step # NonFinite

C3_Witness ==
  /\ ShadesCalled
  /\ arg = [color |-> NotAColor, n |-> 0]
  /\ ret.entries = << >>
  /\ ret.step = FZero

\* C4: for null and for every string that is neither "white" nor matched by
\* the pattern, extractRGBA returns (0, 0, 0, 1) and reports the failure; it
\* reports nothing for "white" or a string the pattern matches.
C4_Fallback ==
  Parsed
    => /\ (arg # White /\ ~RegexMatch(arg).found)
            => ret = [rgba |-> <<0, 0, 0, One>>, diag |-> TRUE]
       /\ (arg \in Unparseable \cup {Null})
            => ret = [rgba |-> <<0, 0, 0, One>>, diag |-> TRUE]
       /\ ret.diag => (arg # White /\ ~RegexMatch(arg).found)
       /\ arg = White => ret = [rgba |-> <<255, 255, 255, One>>, diag |-> FALSE]

C4_Witness ==
  /\ Parsed
  /\ arg = NotAColor
  /\ ret = [rgba |-> <<0, 0, 0, One>>, diag |-> TRUE]

\* C5: for integers R, G, B of 0..255 and an alpha A, hslToRgb applied to
\* the result of rgbToHsl(R, G, B, A) gives the colour rgba(R, G, B, A):
\* the same R, G, B and the same A.
C5_RoundTrip ==
  Converted => ret = Format(arg[1], arg[2], arg[3], arg[4])

C5_Witness ==
  /\ Converted
  /\ arg = <<78, 120, 152, Canon(5, -1)>>
  /\ ret = Format(78, 120, 152, Canon(5, -1))

\* C6 (as stated): extractRGBA applied to the string the formatter writes
\* for (R, G, B, A) returns (R, G, B, A), without the fallback.
C6_FormatParseRoundTrip ==
  ParsedBack => ret = [rgba |-> arg, diag |-> FALSE]

\* C7 (as amended): for a base lightness L0 > 0 and n >= 1 the lightness
\* values of calculateShades are max(0, L0 - i * step), strictly decreasing
\* in i = 1..n; the step is L0 / n when n * 10 > L0 and 10 otherwise; with
\* the step L0 / n the darkest shade has a lightness within rounding of 0 (0
\* or a positive remainder of the floating-point arithmetic) and is black.
C7_ShadesStrictlyDecreasing ==
  (ShadesCalled /\ ~IsZero(ret.base[3]) /\ arg.n >= 1)
    => /\ \A i \in 1..arg.n :
            ShadeLightness(i)
              = FMaxOf(FZero, FSub(ret.base[3], FMul(FromInt(i), ret.step)))
       /\ FLt(ShadeLightness(1), ret.base[3])
       /\ \A i \in 1..(arg.n - 1) : FGt(ShadeLightness(i), ShadeLightness(i + 1))
       /\ IF ShadesSpread
          THEN /\ ret.step = FQuot(ret.base[3], FromInt(arg.n))
               /\ Negligible(ShadeLightness(arg.n))
               /\ ret.entries[1].c = Format(0, 0, 0, ret.base[4])
          ELSE ret.step = FromInt(10)

\* C7 (as stated): the values are strictly decreasing and, when n * 10 > L0,
\* the step is L0 / n and the most extreme shade has lightness exactly 0.
C7_DarkestExactlyZero ==
  (ShadesCalled /\ ~IsZero(ret.base[3]) /\ arg.n >= 1)
    => /\ \A i \in 1..(arg.n - 1) : FGt(ShadeLightness(i), ShadeLightness(i + 1))
       /\ ShadesSpread
            => /\ ret.step = FQuot(ret.base[3], FromInt(arg.n))
               /\ IsZero(ShadeLightness(arg.n))

C7_Witness ==
  /\ ShadesCalled
  /\ arg = [color |-> RgbText(78, 120, 152), n |-> 5]
  /\ ShadesSpread
  /\ ~IsZero(ShadeLightness(5))
  /\ Negligible(ShadeLightness(5))
  /\ FGt(ShadeLightness(4), ShadeLightness(5))

\* C8 (as amended): for a base lightness L0 < 100 and n >= 1 calculateTints
\* returns its entries in the order i = 1..n, of lightness
\* min(100, L0 + i * step), strictly increasing in i; the step is
\* (100 - L0) / n when n * 10 > 100 - L0 and 10 otherwise; with the step
\* (100 - L0) / n the last tint has a lightness within rounding of 100 (100
\* or just below) and is white.
C8_TintsStrictlyIncreasing ==
  (TintsCalled /\ FLt(ret.base[3], FromInt(100)) /\ arg.n >= 1)
    => /\ \A i \in 1..arg.n :
            TintLightness(i)
              = FMinOf(FromInt(100), FAdd(ret.base[3], FMul(FromInt(i), ret.step)))
       /\ FGt(TintLightness(1), ret.base[3])
       /\ \A i \in 1..(arg.n - 1) : FLt(TintLightness(i), TintLightness(i + 1))
       /\ IF TintsSpread
          THEN /\ ret.step = FQuot(FSub(FromInt(100), ret.base[3]), FromInt(arg.n))
               /\ Negligible(FSub(FromInt(100), TintLightness(arg.n)))
               /\ ret.entries[arg.n].c = Format(255, 255, 255, ret.base[4])
          ELSE ret.step = FromInt(10)

\* C8 (as stated): the same, the last tint having lightness exactly 100.
C8_LightestExactlyHundred ==
  (TintsCalled /\ FLt(ret.base[3], FromInt(100)) /\ arg.n >= 1)
    => /\ \A i \in 1..(arg.n - 1) : FLt(TintLightness(i), TintLightness(i + 1))
       /\ TintsSpread
            => /\ ret.step = FQuot(FSub(FromInt(100), ret.base[3]), FromInt(arg.n))
               /\ FEq(TintLightness(arg.n), FromInt(100))

C8_Witness ==
  /\ TintsCalled
  /\ arg = [color |-> RgbText(59, 40, 8), n |-> 9]
  /\ TintsSpread
  /\ FLt(TintLightness(9), FromInt(100))
  /\ FLt(TintLightness(8), TintLightness(9))
  /\ ret.entries[9].c = Format(255, 255, 255, One)

\* C9 (as stated): for the base rgba(0, 0, 0, A) every entry calculateShades
\* returns is rgba(0, 0, 0, A), and for the base rgba(255, 255, 255, A) every
\* entry calculateTints returns is rgba(255, 255, 255, A).
C9_BoundaryKeepsBase ==
  /\ (ShadesCalled /\ arg.color \in {Format(0, 0, 0, a) : a \in Alphas})
       => \A i \in 1..Len(ret.entries) : ret.entries[i].c = arg.color
  /\ (TintsCalled /\ arg.color \in {Format(255, 255, 255, a) : a \in Alphas})
       => \A i \in 1..Len(ret.entries) : ret.entries[i].c = arg.color

\* C10 (as stated): rgb(r,g,b) and rgba(r,g,b,a) written with any white
\* space before and after the commas are parsed to (r, g, b, a), a = 1
\* without an alpha component, and not to the fallback.
C10_WhitespaceAroundCommas ==
  Parsed
    => \A c \in ParseChannels, t \in AlphaTexts, before \in Blanks, after \in Blanks :
         arg = Spaced(c[1], c[2], c[3], t, before, after)
           => ret = [rgba |-> <<c[1], c[2], c[3], IF t = << >> THEN One ELSE ParseFloat(t)>>,
                     diag |-> FALSE]

\* 0 <= a <= 1 for an alpha d * 10^x, d not divisible by ten
AlphaInUnit(a) == a.d = 0 \/ a = One \/ Len(NatToStr(a.d)) + a.x <= 0

\* C11 (as stated): whatever the input, extractRGBA returns integers r, g,
\* b of 0..255 and an alpha of [0, 1].
C11_ComponentsInRange ==
  Parsed
    => /\ \A i \in 1..3 : ret.rgba[i] \in 0..255
       /\ AlphaInUnit(ret.rgba[4])

Called(name) == fn = <<name>>

FLe(x, y) == ~FGt(x, y)

\* C12: for integers r, g, b of 0..255 and an alpha a, rgbToHsl returns
\* 0 <= H < 360, 0 <= S <= 100, 0 <= L <= 100 and the alpha it was given,
\* and H = 0, S = 0 when the three channels are equal.
C12_HslInRange ==
  Called("rgbToHsl")
    => /\ FLe(FZero, ret[1]) /\ FLt(ret[1], FromInt(360))
       /\ FLe(FZero, ret[2]) /\ FLe(ret[2], FromInt(100))
       /\ FLe(FZero, ret[3]) /\ FLe(ret[3], FromInt(100))
       /\ ret[4] = arg[4]
       /\ (arg[1] = arg[2] /\ arg[2] = arg[3]) => (ret[1] = FZero /\ ret[2] = FZero)

\* rgb(78, 120, 152) with alpha 0.5: hue between 205 and 206
C12_Witness ==
  /\ Called("rgbToHsl")
  /\ arg = <<78, 120, 152, Canon(5, -1)>>
  /\ FGt(ret[1], FromInt(205))
  /\ FLt(ret[1], FromInt(206))
  /\ FGt(ret[2], FromInt(32))
  /\ FLt(ret[3], FromInt(46))
  /\ ret[4] = Canon(5, -1)

Returned == Called("getAbsolutePosition") /\ ret.returned

RECURSIVE SumX(_, _)
SumX(chain, n) == IF n = 0 THEN 0 ELSE SumX(chain, n - 1) + chain[n].rect[1].x

RECURSIVE SumY(_, _)
SumY(chain, n) == IF n = 0 THEN 0 ELSE SumY(chain, n - 1) + chain[n].rect[1].y

\* the first n nodes, with the height of the starting node once
SumsOf(chain, n) ==
  [x |-> SumX(chain, n),
   y |-> SumY(chain, n) + (IF n = 0 THEN 0 ELSE chain[1].rect[1].height)]

RectMissing(chain, j) ==
  /\ chain[j].rect = NoRect
  /\ \A i \in 1..(j - 1) : chain[i].rect # NoRect /\ chain[i].parent

ParentMissing(chain, j) ==
  /\ chain[j].rect # NoRect /\ ~chain[j].parent
  /\ \A i \in 1..(j - 1) : chain[i].rect # NoRect /\ chain[i].parent

AllPresent(chain) == \A i \in 1..Len(chain) : chain[i].rect # NoRect /\ chain[i].parent

PositionAsDocumented ==
  /\ AllPresent(arg) => XY(ret) = SumsOf(arg, Len(arg))
  /\ \A j \in 1..Len(arg) :
       /\ RectMissing(arg, j) => XY(ret) = SumsOf(arg, j - 1)
       /\ ParentMissing(arg, j) => XY(ret) = SumsOf(arg, j)

Pressed == Called("handleAddColorStyles") \/ Called("handleAddToCanvas")

Suffixes(items) == [k \in 1..Len(items) |-> items[k].suffix]

Descending(n) == [k \in 1..n |-> n + 1 - k]

PositionOfSelection ==
  IF Len(selection) > 0 THEN <<getAbsolutePosition(selection[1].chain)>> ELSE << >>

\* C15 (as stated): with no fetch pending, selectionAbsoluteXY is the
\* position of the first node of the current selection, and no position
\* when nothing is selected.
C15_PositionOfCurrentSelection ==
  pending = {} => selectionAbsoluteXY = PositionOfSelection

\* the same for a selected node only: a fetch started for an earlier
\* selection may resolve last
C15_PositionOfSelectedNode ==
  (pending = {} /\ Len(selection) > 0) => selectionAbsoluteXY = PositionOfSelection

\* the parent frame is placed from the stored position
C15_PlacedFromStoredPosition ==
  (Called("handleAddToCanvas") /\ selectionAbsoluteXY # << >>)
    => /\ ret.parent[1].left = selectionAbsoluteXY[1].x
       /\ ret.parent[1].top = selectionAbsoluteXY[1].y + 150
====
